---------------------------- MODULE Spec2Model ----------------------------
(***************************************************************************)
(* Model of claude-remote: the Session & Repository Context Manager.       *)
(*                                                                         *)
(*   - strings are sequences of one-character strings, so that prefix      *)
(*     tests, splitting and path normalisation are computed, not assumed;  *)
(*   - SpecFile   : safeResolveFilePath applied to bounded inputs;         *)
(*   - Spec       : the HTTP handlers over the in-memory session store,    *)
(*                  the AI-engine drain, and the repos directory;          *)
(*   - SpecRepo   : repository-reference resolution (resolveRepoPath,      *)
(*                  cloneOrGetRepository) over the repos directory.        *)
(***************************************************************************)
EXTENDS Integers, Sequences, FiniteSets, TLC

(***************************************************************************)
(* Strings                                                                 *)
(***************************************************************************)

\* String.prototype.startsWith
StartsWith(s, p) ==
  /\ Len(p) <= Len(s)
  /\ SubSeq(s, 1, Len(p)) = p

\* String.prototype.includes
Includes(s, sub) ==
  \E i \in 1..(Len(s) - Len(sub) + 1) : SubSeq(s, i, i + Len(sub) - 1) = sub

\* index of the first occurrence of sub in s (0 when there is none)
IndexOf(s, sub) ==
  IF Includes(s, sub)
  THEN CHOOSE i \in 1..(Len(s) - Len(sub) + 1) :
         /\ SubSeq(s, i, i + Len(sub) - 1) = sub
         /\ \A j \in 1..(i - 1) : SubSeq(s, j, j + Len(sub) - 1) # sub
  ELSE 0

\* String.prototype.replace(sub, by) with a string pattern: first occurrence only
ReplaceFirst(s, sub, by) ==
  LET i == IndexOf(s, sub)
  IN IF i = 0 THEN s
     ELSE SubSeq(s, 1, i - 1) \o by \o SubSeq(s, i + Len(sub), Len(s))

\* String.prototype.split("/")
RECURSIVE SplitSlash(_)
SplitSlash(s) ==
  LET i == IndexOf(s, <<"/">>)
  IN IF i = 0 THEN <<s>>
     ELSE <<SubSeq(s, 1, i - 1)>> \o SplitSlash(SubSeq(s, i + 1, Len(s)))

\* Array.prototype.join("/")
RECURSIVE JoinSlash(_)
JoinSlash(segs) ==
  IF segs = <<>> THEN <<>>
  ELSE IF Len(segs) = 1 THEN segs[1]
  ELSE segs[1] \o <<"/">> \o JoinSlash(Tail(segs))

(***************************************************************************)
(* node:path (posix)                                                       *)
(***************************************************************************)

Sep == <<"/">>
Dot == <<".">>
DotDot == <<".", ".">>

\* normalizeString of an absolute path (allowAboveRoot = false): "" and "."
\* segments vanish, ".." removes the segment before it and is dropped at the root
RECURSIVE NormalizeSegs(_, _)
NormalizeSegs(segs, acc) ==
  IF segs = <<>> THEN acc
  ELSE LET s == Head(segs)
       IN IF s = <<>> \/ s = Dot THEN NormalizeSegs(Tail(segs), acc)
          ELSE IF s = DotDot
               THEN NormalizeSegs(Tail(segs),
                                  IF acc = <<>> THEN acc
                                  ELSE SubSeq(acc, 1, Len(acc) - 1))
               ELSE NormalizeSegs(Tail(segs), Append(acc, s))

\* the segments of an absolute path after normalisation
AbsSegs(p) == NormalizeSegs(SplitSlash(p), <<>>)

\* path.resolve(base, rel) for an absolute base: the rightmost absolute argument
\* wins, empty arguments are skipped, the result carries no trailing separator
PathResolve(base, rel) ==
  LET joined == IF rel = <<>> THEN base
                ELSE IF StartsWith(rel, Sep) THEN rel
                ELSE base \o Sep \o rel
  IN Sep \o JoinSlash(AbsSegs(joined))

\* path.join(base, rel) for an absolute base: concatenate with a separator and
\* normalise; unlike resolve, an absolute rel does not override and a trailing
\* separator is kept
PathJoin(base, rel) ==
  LET joined == IF rel = <<>> THEN base ELSE base \o Sep \o rel
      body   == JoinSlash(AbsSegs(joined))
      trail  == joined # <<>> /\ joined[Len(joined)] = "/"
  IN Sep \o body \o (IF body # <<>> /\ trail THEN Sep ELSE <<>>)

(***************************************************************************)
(* Safe File Accessor                                                      *)
(***************************************************************************)

None == "none"

\* the containment test with the separator forgotten: a bare prefix test
SafeResolveFilePath_NoSep(repoPath, filePath) ==
  LET cleanFilePath      == IF StartsWith(filePath, Sep) THEN Tail(filePath) ELSE filePath
      fullPath           == PathResolve(repoPath, cleanFilePath)
      normalizedRepoPath == PathResolve(repoPath, <<>>)
      normalizedFullPath == PathResolve(fullPath, <<>>)
  IN IF ~StartsWith(normalizedFullPath, normalizedRepoPath)
     THEN [success |-> FALSE, error |-> "PathTraversal", fullPath |-> <<>>]
     ELSE [success |-> TRUE, error |-> None, fullPath |-> normalizedFullPath]

\* safeResolveFilePath: path.resolve never throws on strings, so the catch
\* branch ("Invalid file path") is not reachable from a request
SafeResolveFilePath(repoPath, filePath) ==
  LET cleanFilePath      == IF StartsWith(filePath, Sep) THEN Tail(filePath) ELSE filePath
      fullPath           == PathResolve(repoPath, cleanFilePath)
      normalizedRepoPath == PathResolve(repoPath, <<>>)
      normalizedFullPath == PathResolve(fullPath, <<>>)
  IN IF /\ ~StartsWith(normalizedFullPath, normalizedRepoPath \o Sep)
        /\ normalizedFullPath # normalizedRepoPath
     THEN [success |-> FALSE, error |-> "PathTraversal", fullPath |-> <<>>]
     ELSE [success |-> TRUE, error |-> None, fullPath |-> normalizedFullPath]

(***************************************************************************)
(* Repository references (gitService)                                      *)
(***************************************************************************)

\* process.cwd() of the server, and DEFAULT_REPOS_PATH = path.join(cwd, "repos")
Cwd == <<"/", "w">>
DEFAULT_REPOS_PATH == PathJoin(Cwd, <<"r", "e", "p", "o", "s">>)

Digits == {"0", "1", "2", "3", "4", "5", "6", "7", "8", "9"}
Letters == {"a", "b", "c", "d", "e", "f", "g", "h", "i", "j", "k", "l", "m",
            "n", "o", "p", "q", "r", "s", "t", "u", "v", "w", "x", "y", "z"}
\* \w
WordChars == Letters \cup Digits \cup {"_"}
\* [\w\-.]
HostChars == WordChars \cup {"-", "."}
\* [[\w\-./]
PathChars == WordChars \cup {"[", "-", ".", "/"}

UrlPrefixes == { <<"h", "t", "t", "p", ":", "/", "/">>,
                 <<"h", "t", "t", "p", "s", ":", "/", "/">>,
                 <<"g", "i", "t", "@">> }

\* ([[\w\-./]+)(\\.git)?$ : one or more path characters, then optionally a
\* backslash, any character and "git", then the end of the string
MatchesPathTail(t) ==
  \E n \in 1..Len(t) :
    /\ \A i \in 1..n : t[i] \in PathChars
    /\ \/ n = Len(t)
       \/ /\ Len(t) - n = 5
          /\ t[n + 1] = "\\"
          /\ t[n + 2] # "\n"
          /\ SubSeq(t, n + 3, n + 5) = <<"g", "i", "t">>

\* [\w\-.]+(\:\d+)?\/ followed by the path tail
MatchesHostAndPath(r) ==
  \E h \in 1..Len(r) :
    /\ \A i \in 1..h : r[i] \in HostChars
    /\ \E d \in 0..(Len(r) - h) :
         LET k == IF d = 0 THEN h + 1 ELSE h + d + 2
         IN /\ d > 0 => /\ h + 1 <= Len(r)
                        /\ r[h + 1] = ":"
                        /\ \A i \in (h + 2)..(h + d + 1) : i <= Len(r) /\ r[i] \in Digits
            /\ k <= Len(r)
            /\ r[k] = "/"
            /\ MatchesPathTail(SubSeq(r, k + 1, Len(r)))

\* isValidGitUrl: /^(https?:\/\/|git@)[\w\-.]+(\:\d+)?\/([[\w\-./]+)(\\.git)?$/
IsValidGitUrl(url) ==
  \E pre \in UrlPrefixes :
    /\ StartsWith(url, pre)
    /\ MatchesHostAndPath(SubSeq(url, Len(pre) + 1, Len(url)))

UnknownRepo == <<"u", "n", "k", "n", "o", "w", "n", "-", "r", "e", "p", "o">>
DotGit == <<".", "g", "i", "t">>

\* extractRepoName: url.split("/").pop()?.replace(".git", "") || "unknown-repo"
ExtractRepoName(url) ==
  LET segs == SplitSlash(url)
      name == ReplaceFirst(segs[Len(segs)], DotGit, <<>>)
  IN IF name = <<>> THEN UnknownRepo ELSE name

\* getRepositoryPath: path.join(reposPath, repoName)
GetRepositoryPath(repoName) == PathJoin(DEFAULT_REPOS_PATH, repoName)

\* resolveRepoPath's test for "this reference is a remote URL"
LooksLikeUrl(repo) ==
  \/ Includes(repo, <<":", "/", "/">>)
  \/ StartsWith(repo, <<"g", "i", "t", "@">>)

\* The repository references requests carry:
\*   UrlA      https://h/a   a remote URL; its directory is repos/a
\*   UrlG      http://g/a    another remote with the same final segment
\*   UrlDots   https://h/..  a URL the validator accepts, final segment ".."
\*   UrlAGit   https://h/a.git       the same remote as UrlA, with the suffix
\*   UrlInner  https://h/.gita.git   ".git" occurs inside the final segment too
\*   BadUrl    ftp://h/a     has "://" but is no valid git URL
\*   NameA     a             a short name
\*   NameUp    ..            a parent-directory "name"
\*   NameDeep  a/../..       a "name" with separators and parent segments
UrlA == <<"h", "t", "t", "p", "s", ":", "/", "/", "h", "/", "a">>
UrlG == <<"h", "t", "t", "p", ":", "/", "/", "g", "/", "a">>
UrlDots == <<"h", "t", "t", "p", "s", ":", "/", "/", "h", "/", ".", ".">>
UrlAGit == UrlA \o <<".", "g", "i", "t">>
UrlInner == <<"h", "t", "t", "p", "s", ":", "/", "/", "h", "/",
              ".", "g", "i", "t", "a", ".", "g", "i", "t">>
BadUrl == <<"f", "t", "p", ":", "/", "/", "h", "/", "a">>
NameA == <<"a">>
NameUp == <<".", ".">>
NameDeep == <<"a", "/", ".", ".", "/", ".", ".">>

\* the directory of UrlA's clone, given as a path
PathA == GetRepositoryPath(ExtractRepoName(UrlA))

\* the references given to the session handlers (Spec) and to the git
\* handlers (SpecRepo); Spec deletes repositories by short name only, the
\* deletion by URL is SpecRepo's
SessionRepos == { UrlA, NameA }
RepoRefs == { UrlA, UrlG, UrlDots, UrlAGit, UrlInner, BadUrl, NameA, NameUp,
              NameDeep }

\* The string functions above, tabulated once over the references in use
RefInfo ==
  [ u \in SessionRepos \cup RepoRefs |->
      [ valid     |-> IsValidGitUrl(u),
        repoName  |-> ExtractRepoName(u),
        target    |-> GetRepositoryPath(ExtractRepoName(u)),
        isUrl     |-> LooksLikeUrl(u),
        shortPath |-> GetRepositoryPath(u) ] ]

(***************************************************************************)
(* State                                                                   *)
(***************************************************************************)

VARIABLES
  fRoot,       \* safeResolveFilePath: the repoPath argument
  fPath,       \* safeResolveFilePath: the filePath argument
  fResult,     \* safeResolveFilePath: <<the value returned>>, <<>> before the call
  sessions,    \* the keys of the `sessions` Map; key k maps to object k
  objects,     \* the ClaudeSession objects ever allocated, by id
  nextId,      \* randomUUID: the next fresh session id
  dispatches,  \* processPrompt calls suspended in their for-await drain
  nDispatch,   \* processPrompt calls started so far
  dirs,        \* the directories that exist on the filesystem (paths)
  clones,      \* cloneOrGetRepository calls suspended in git.clone
  now,         \* the wall clock at its latest reading by new Date()
  lastResp,    \* the HTTP response sent by the latest handler to finish
  successes,   \* history: per session id, drains completed successfully
  deleted,     \* history: ids for which deleteSession returned true
  createdWith, \* history: per session id, the directory given to createSession
  tree,        \* listDirectoryRecursive: the directory it is given
  listing,     \* listDirectoryRecursive: <<the items returned>>, <<>> before the call
  saves,       \* POST /git/save requests, by arrival: progress and git calls made
  work,        \* the working tree, index and history of the repository saved
  origin,      \* history: per directory made by git.clone, the URL cloned
  cloneResult, \* the CloneResult of the latest cloneOrGetRepository call made directly
  puts,        \* PUT /git/repos/:name/files/* requests, by arrival
  written      \* the regular files that exist on the filesystem (paths)

fileVars == <<fRoot, fPath, fResult>>
listVars == <<tree, listing>>
saveVars == <<saves, work>>
sessionVars == <<sessions, objects, nextId, dispatches, nDispatch, now,
                 successes, deleted, createdWith>>
repoVars == <<dirs, clones, origin, cloneResult>>
putVars == <<puts, written>>
vars == <<fRoot, fPath, fResult, sessions, objects, nextId, dispatches,
          nDispatch, dirs, clones, now, lastResp, successes, deleted,
          createdWith, tree, listing, saves, work, origin, cloneResult, puts,
          written>>

NoResp == [op |-> "none", status |-> 0, sessionId |-> 0, messages |-> 0,
           path |-> <<>>, error |-> "none", repoName |-> <<>>,
           repositories |-> <<>>]

\* no directory has been made by git.clone yet
NoOrigin == [p \in {} |-> <<>>]

\* CloneResult (gitService.ts): alreadyExists is <<the flag>>, <<>> when absent
CloneResult(success, repoName, path, url, alreadyExists, error) ==
  [success |-> success, repoName |-> repoName, path |-> path, url |-> url,
   alreadyExists |-> alreadyExists, error |-> error]

\* no cloneOrGetRepository call has returned yet
NoResult == CloneResult(FALSE, <<>>, <<>>, <<>>, <<>>, "none")

\* listDirectoryRecursive has no directory yet: an unreadable, empty one
NoTree == [readable |-> FALSE, entries |-> <<>>]

\* a repository just cloned: nothing modified, nothing staged, the clone's
\* history is the remote's
CleanTree == [unstaged |-> 0, staged |-> 0, commits |-> 0, pushed |-> 0]

(***************************************************************************)
(* SpecFile: safeResolveFilePath on every root and every short path        *)
(***************************************************************************)

MaxPathLen == 5

\* the characters a requested path is built from: separator, dot, a name
\* character and a character that makes a sibling name ("r-" beside "r")
PathAlphabet == {"/", ".", "r", "-"}

FilePaths == UNION { [1..n -> PathAlphabet] : n \in 0..MaxPathLen }

\* repository roots as resolveRepoPath returns them: a directory, the same with
\* a trailing separator, a nested one, and the filesystem root
FileRoots == { <<"/", "r">>, <<"/", "r", "/">>, <<"/", "r", "/", "r">>, <<"/">> }

InitFile ==
  /\ fRoot \in FileRoots
  /\ fPath \in FilePaths
  /\ fResult = <<>>
  /\ sessions = {}
  /\ objects = <<>>
  /\ nextId = 1
  /\ dispatches = <<>>
  /\ nDispatch = 0
  /\ dirs = {}
  /\ clones = <<>>
  /\ now = 0
  /\ lastResp = NoResp
  /\ successes = <<>>
  /\ deleted = {}
  /\ createdWith = <<>>
  /\ tree = NoTree
  /\ listing = <<>>
  /\ saves = <<>>
  /\ work = CleanTree
  /\ origin = NoOrigin
  /\ cloneResult = NoResult
  /\ puts = <<>>
  /\ written = {}

ResolveFile ==
  /\ fResult = <<>>
  /\ fResult' = <<SafeResolveFilePath(fRoot, fPath)>>
  /\ UNCHANGED <<fRoot, fPath, listVars, putVars, saveVars, sessionVars, repoVars, lastResp>>

NextFile == ResolveFile

SpecFile == InitFile /\ [][NextFile]_vars

\* p lies in the directory tree rooted at root: root's normalised segments
\* are the first segments of p's
IsWithin(root, p) ==
  LET r == AbsSegs(root)
      q == AbsSegs(p)
  IN /\ Len(r) <= Len(q)
     /\ SubSeq(q, 1, Len(r)) = r

\* p is in normal form: absolute, no empty, "." or ".." segment
IsNormalized(p) == p = Sep \o JoinSlash(AbsSegs(p))

\* C1: safeResolveFilePath returns either success with a normalised path that
\* is the root or lies below it, or a path-traversal failure; never success
\* with a path outside the root
C1_NoEscape ==
  fResult # <<>> =>
    IF fResult[1].success
    THEN /\ IsNormalized(fResult[1].fullPath)
         /\ IsWithin(fRoot, fResult[1].fullPath)
         /\ \/ fResult[1].fullPath = PathResolve(fRoot, <<>>)
            \/ StartsWith(fResult[1].fullPath, PathResolve(fRoot, <<>>) \o Sep)
    ELSE fResult[1].error = "PathTraversal"

\* C1 witness: a ".." path to the sibling directory "r-" of root "/r" was
\* resolved and refused
C1_Witness ==
  /\ fRoot = <<"/", "r">>
  /\ fPath = <<".", ".", "/", "r", "-">>
  /\ fResult # <<>>
  /\ ~fResult[1].success

(***************************************************************************)
(* SpecList: listDirectoryRecursive on every small directory tree          *)
(***************************************************************************)

MaxDepth == 2
MaxEntries == 2

\* entry names; one of them is hidden
EntryNames == { <<"a">>, <<"b">>, <<".", "h">> }

\* the sequences of at most MaxEntries entries with different names: what
\* fs.readdir gives for one directory
Readdirs(entries) ==
  { es \in UNION { [1..n -> entries] : n \in 0..MaxEntries } :
      \A i, j \in DOMAIN es : i # j => es[i].name # es[j].name }

\* files: `ok` says whether fs.stat succeeds on them
FileEntries ==
  [name : EntryNames, isDirectory : {FALSE}, ok : BOOLEAN, entries : {<<>>}]

\* the entries of a directory with d more levels below it; for a directory,
\* `ok` says whether fs.readdir succeeds on it
RECURSIVE DirEntries(_)
DirEntries(d) ==
  IF d = 0 THEN FileEntries
  ELSE FileEntries \cup
       [name : EntryNames, isDirectory : {TRUE}, ok : BOOLEAN,
        entries : Readdirs(DirEntries(d - 1))]

\* the directories listDirectoryRecursive is given
Trees == [readable : BOOLEAN, entries : Readdirs(DirEntries(MaxDepth - 1))]

\* listDirectoryRecursive(dirPath, relativeTo), dirPath being `rel` below
\* relativeTo: Items is the for loop from entry i on, `items` what was pushed
\* before; the catch around the loop returns what was pushed so far
RECURSIVE ListDirectoryRecursive(_, _, _), Items(_, _, _, _)
ListDirectoryRecursive(readable, entries, rel) ==
  IF ~readable THEN <<>> ELSE Items(entries, 1, rel, <<>>)

Items(entries, i, rel, items) ==
  IF i > Len(entries) THEN items
  ELSE LET entry == entries[i]
           relativePath == IF rel = <<>> THEN entry.name
                           ELSE rel \o Sep \o entry.name
       IN IF StartsWith(entry.name, Dot)
          THEN Items(entries, i + 1, rel, items)
          ELSE IF entry.isDirectory
          THEN Items(entries, i + 1, rel,
                     Append(items,
                            [name |-> entry.name, path |-> relativePath,
                             type |-> "directory",
                             children |-> ListDirectoryRecursive(
                                            entry.ok, entry.entries, relativePath)]))
          ELSE IF entry.ok
          THEN Items(entries, i + 1, rel,
                     Append(items,
                            [name |-> entry.name, path |-> relativePath,
                             type |-> "file", children |-> <<>>]))
          ELSE items

InitList ==
  /\ tree \in Trees
  /\ listing = <<>>
  /\ fRoot = Sep
  /\ fPath = <<>>
  /\ fResult = <<>>
  /\ sessions = {}
  /\ objects = <<>>
  /\ nextId = 1
  /\ dispatches = <<>>
  /\ nDispatch = 0
  /\ dirs = {}
  /\ clones = <<>>
  /\ now = 0
  /\ lastResp = NoResp
  /\ successes = <<>>
  /\ deleted = {}
  /\ createdWith = <<>>
  /\ saves = <<>>
  /\ work = CleanTree
  /\ origin = NoOrigin
  /\ cloneResult = NoResult
  /\ puts = <<>>
  /\ written = {}

\* listDirectoryRecursive(resolveResult.path), as GET /git/repos/:name/files
\* calls it on the repository's directory
ListFiles ==
  /\ listing = <<>>
  /\ listing' = <<ListDirectoryRecursive(tree.readable, tree.entries, <<>>)>>
  /\ UNCHANGED <<tree, putVars, fileVars, sessionVars, repoVars, saveVars, lastResp>>

NextList == ListFiles

SpecList == InitList /\ [][NextList]_vars

\* every entry of `entries` that is not hidden and did not fail (a file whose
\* stat succeeds, a directory) is among `items`, and so are, level by level,
\* the entries of each directory that could be read
RECURSIVE AllReadableListed(_, _)
AllReadableListed(entries, items) ==
  \A i \in DOMAIN entries :
    LET entry == entries[i]
    IN (~StartsWith(entry.name, Dot) /\ (entry.isDirectory \/ entry.ok))
       => \E j \in DOMAIN items :
            /\ items[j].name = entry.name
            /\ (entry.isDirectory /\ entry.ok)
                 => AllReadableListed(entry.entries, items[j].children)

\* C16: in the recursive listing a failure on one entry affects that entry
\* only: every other readable entry that is not hidden, the later ones of the
\* same directory included, is in the tree returned
C16_FailureAffectsOneEntry ==
  (listing # <<>> /\ tree.readable) => AllReadableListed(tree.entries, listing[1])

(***************************************************************************)
(* Session Store and Prompt Dispatcher (claudeService)                     *)
(***************************************************************************)

MaxSessions == 1
MaxDispatches == 2
MaxMessages == 2
MaxClones == 1
MaxCalls == 2

\* request.prompt values; the empty string is the missing prompt
Prompts == {"p1", "p2"}
NoPrompt == ""
\* metadata.lastPrompt before any prompt: undefined
Absent == "absent"
\* no sessionId in the request
NoSession == 0

SessionIds == 1..MaxSessions

\* the n-th message the engine produces in dispatch k
Message(k, n) == [dispatch |-> k, n |-> n]

\* fs.access(p) succeeds
Exists(p) == PathResolve(p, <<>>) \in dirs

\* the directories present when the server starts listening (index.ts makes
\* the repos directory before app.listen)
InitialDirs == { Sep, Cwd, DEFAULT_REPOS_PATH }

\* request.repo missing (or empty: the handlers test it for truthiness)
NoRepo == <<>>

\* an HTTP response: the handler, the status and the body fields the model reads
Resp(op, status, sid, n, path, error) ==
  [op |-> op, status |-> status, sessionId |-> sid, messages |-> n,
   path |-> path, error |-> error, repoName |-> <<>>,
   repositories |-> <<>>]

\* a response of the git routes that carries repoName
RepoResp(op, status, repoName, path, error) ==
  [Resp(op, status, NoSession, 0, path, error) EXCEPT !.repoName = repoName]

\* createSession with a counter that starts at one
NewSession_CountsFromOne(id, workingDirectory, repoContext, t) ==
  [id |-> id, createdAt |-> t, updatedAt |-> t, repoContext |-> repoContext,
   workingDirectory |-> workingDirectory, messages |-> <<>>,
   totalPrompts |-> 1, lastPrompt |-> Absent]

\* createSession: the record it builds
NewSession(id, workingDirectory, repoContext, t) ==
  [id |-> id, createdAt |-> t, updatedAt |-> t, repoContext |-> repoContext,
   workingDirectory |-> workingDirectory, messages |-> <<>>,
   totalPrompts |-> 0, lastPrompt |-> Absent]

\* getSession: sessions.get(sessionId), as <<session>>, or <<>> for undefined
GetSession(sessionId) ==
  IF sessionId \in sessions THEN <<objects[sessionId]>> ELSE <<>>

HasSession(sessionId) == sessionId \in sessions

\* getAllSessions: the values of the Map
GetAllSessions == { objects[id] : id \in sessions }

\* the lookup that lets the caller's directory win over the session's
Lookup_CallerWins(sessionId, workingDirectory) ==
  [session |-> sessionId # NoSession /\ sessionId \in sessions,
   workingDirectory |-> workingDirectory]

\* processPrompt, lines 99-108: the session looked up and the directory used
Lookup(sessionId, workingDirectory) ==
  IF sessionId # NoSession /\ sessionId \in sessions
  THEN [session |-> TRUE, workingDirectory |-> objects[sessionId].workingDirectory]
  ELSE [session |-> FALSE, workingDirectory |-> workingDirectory]

\* the update that forgets to count the prompt
UpdateSession_NoCount(session, d, t) ==
  [session EXCEPT !.messages = @ \o d.messages,
                  !.updatedAt = t,
                  !.lastPrompt = d.prompt]

\* the update that rebinds the session to the directory the caller passed
UpdateSession_Rebind(session, d, t) ==
  [session EXCEPT !.messages = @ \o d.messages,
                  !.updatedAt = t,
                  !.totalPrompts = @ + 1,
                  !.lastPrompt = d.prompt,
                  !.workingDirectory = d.callerDirectory]

\* the update that puts the new messages in front of the old ones
UpdateSession_Prepend(session, d, t) ==
  [session EXCEPT !.messages = d.messages \o @,
                  !.updatedAt = t,
                  !.totalPrompts = @ + 1,
                  !.lastPrompt = d.prompt]

\* the update that sets lastPrompt only while the session has none
UpdateSession_KeepsFirstPrompt(session, d, t) ==
  [session EXCEPT !.messages = @ \o d.messages,
                  !.updatedAt = t,
                  !.totalPrompts = @ + 1,
                  !.lastPrompt = IF @ = Absent THEN d.prompt ELSE @]

\* processPrompt, lines 127-131: the session object after the drain of d
UpdateSession(session, d, t) ==
  [session EXCEPT !.messages = @ \o d.messages,
                  !.updatedAt = t,
                  !.totalPrompts = @ + 1,
                  !.lastPrompt = d.prompt]

ObjectIds == DOMAIN objects
DispatchIds == DOMAIN dispatches
CloneIds == DOMAIN clones

\* f with key k removed
Without(f, k) == [x \in (DOMAIN f) \ {k} |-> f[x]]
\* f with key k set to v
With(f, k, v) == [x \in (DOMAIN f) \cup {k} |-> IF x = k THEN v ELSE f[x]]

\* handlers suspended in git.clone that will create a session / start a dispatch
PendingSessions == Cardinality({c \in CloneIds : clones[c].caller = "sessions"})
PendingPrompts == Cardinality({c \in CloneIds : clones[c].caller = "prompt"})

(***************************************************************************)
(* Filesystem and git.clone                                                *)
(***************************************************************************)

\* the path itself and every ancestor of it
RECURSIVE PathAndAncestors(_)
PathAndAncestors(segs) ==
  IF segs = <<>> THEN { Sep }
  ELSE { Sep \o JoinSlash(segs) } \cup PathAndAncestors(SubSeq(segs, 1, Len(segs) - 1))

\* fs.mkdir(p, {recursive: true}), and the directory a successful clone leaves
MkdirP(ds, p) == ds \cup PathAndAncestors(AbsSegs(p))

\* fs.rm(p, {recursive: true, force: true}): p and everything below it goes;
\* a missing p is not an error
Rm(ds, p) == { d \in ds : ~IsWithin(p, d) }

\* what is remembered of the clones once only the directories ds are left
Forget(o, ds) == [p \in (DOMAIN o) \cap ds |-> o[p]]

\* repositoryExists reporting every repository as missing
RepositoryExists_Never(targetPath) == FALSE

\* repositoryExists(repoName): fs.access(path.join(reposPath, repoName)),
\* given the joined path
RepositoryExists(targetPath) == Exists(targetPath)

\* cloneOrGetRepository up to its first suspension in git.clone:
\*   "invalid" - the URL is refused, {success: false, error: "Invalid git URL format"}
\*   "exists"  - {success: true, alreadyExists: true, path}
\*   "clone"   - the directory is missing: ensureReposDirectory, then git.clone
CloneOrGet(url) ==
  IF ~RefInfo[url].valid
  THEN [kind |-> "invalid", repoName |-> <<>>, path |-> <<>>]
  ELSE LET repoName   == RefInfo[url].repoName
           targetPath == RefInfo[url].target
       IN IF RepositoryExists(targetPath)
          THEN [kind |-> "exists", repoName |-> repoName, path |-> targetPath]
          ELSE [kind |-> "clone", repoName |-> repoName, path |-> targetPath]

\* a name for one more suspended cloneOrGetRepository call
FreeCloneId == CHOOSE c \in 1..(Cardinality(CloneIds) + 1) : c \notin CloneIds

\* cloneOrGetRepository, lines 83-88: the call suspends in git.clone. The
\* calls suspended at once are bounded: MaxCalls when the function is called
\* directly, MaxClones when a route calls it
StartClone(caller, url, r, prompt) ==
  /\ Cardinality(CloneIds) <
       (IF caller = "call" THEN MaxCalls ELSE MaxClones)
  /\ clones' = With(clones, FreeCloneId,
                    [caller |-> caller, url |-> url, repoName |-> r.repoName,
                     path |-> r.path, prompt |-> prompt])
  /\ dirs' = MkdirP(dirs, DEFAULT_REPOS_PATH)
  /\ UNCHANGED <<origin, cloneResult>>

(***************************************************************************)
(* Handlers                                                                *)
(***************************************************************************)

\* new Date(): the clock has stayed within the same millisecond since the
\* latest reading, or has moved on
ClockReadings == { now, now + 1 }

\* createSession(workingDirectory, repoContext)
CreateSession(workingDirectory, repoContext) ==
  /\ \E t \in ClockReadings :
       /\ now' = t
       /\ objects' = With(objects, nextId,
                          NewSession(nextId, workingDirectory, repoContext, t))
  /\ sessions' = sessions \cup {nextId}
  /\ nextId' = nextId + 1
  /\ createdWith' = With(createdWith, nextId, workingDirectory)
  /\ successes' = With(successes, nextId, 0)
  /\ lastResp' = Resp("createSession", 201, nextId, 0, workingDirectory, None)

\* processPrompt up to its suspension in the for-await over query()
StartDispatch(prompt, sessionId, workingDirectory) ==
  LET l == Lookup(sessionId, workingDirectory)
  IN /\ dispatches' = With(dispatches, nDispatch + 1,
                           [sessionId |-> sessionId,
                            session |-> l.session,
                            callerDirectory |-> workingDirectory,
                            workingDirectory |-> l.workingDirectory,
                            prompt |-> prompt,
                            messages |-> <<>>])
     /\ nDispatch' = nDispatch + 1

\* POST /claude/sessions {repo?}
PostSessions(repo) ==
  /\ nextId + PendingSessions <= MaxSessions
  /\ UNCHANGED <<fileVars, listVars, putVars, saveVars, dispatches, nDispatch, deleted>>
  /\ IF repo = NoRepo
     THEN /\ CreateSession(Cwd, NoRepo)
          /\ UNCHANGED repoVars
     ELSE LET r == CloneOrGet(repo)
          IN CASE r.kind = "invalid" ->
                    /\ lastResp' = Resp("createSession", 400, NoSession, 0, <<>>,
                                        "Invalid git URL format")
                    /\ UNCHANGED <<sessions, objects, nextId, createdWith,
                                   successes, now, repoVars>>
               [] r.kind = "exists" ->
                    /\ CreateSession(r.path, repo)
                    /\ UNCHANGED repoVars
               [] r.kind = "clone" ->
                    /\ StartClone("sessions", repo, r, NoPrompt)
                    /\ UNCHANGED <<sessions, objects, nextId, createdWith,
                                   successes, now, lastResp>>

\* GET /claude/sessions/:id
GetSessionRoute(id) ==
  /\ lastResp' = IF GetSession(id) = <<>>
                 THEN Resp("getSession", 404, id, 0, <<>>, "Session not found")
                 ELSE Resp("getSession", 200, id, Len(objects[id].messages),
                           objects[id].workingDirectory, None)
  /\ UNCHANGED <<fileVars, listVars, putVars, saveVars, sessionVars, repoVars>>

\* GET /claude/sessions
ListSessions ==
  /\ lastResp' = Resp("listSessions", 200, NoSession,
                      Cardinality(GetAllSessions), <<>>, None)
  /\ UNCHANGED <<fileVars, listVars, putVars, saveVars, sessionVars, repoVars>>

\* deleteSession: sessions.delete(sessionId), the Map after it
DeleteSession(sessionId) == sessions \ {sessionId}

\* DELETE /claude/sessions/:id
DeleteSessionRoute(id) ==
  /\ UNCHANGED <<fileVars, listVars, putVars, saveVars, objects, nextId, dispatches, nDispatch, now,
                 successes, createdWith, repoVars>>
  /\ IF id \in sessions
     THEN /\ sessions' = DeleteSession(id)
          /\ deleted' = deleted \cup {id}
          /\ lastResp' = Resp("deleteSession", 200, id, 0, <<>>, None)
     ELSE /\ lastResp' = Resp("deleteSession", 404, id, 0, <<>>, "Session not found")
          /\ UNCHANGED <<sessions, deleted>>

\* POST /claude/prompt without the route's `if (!session)` answer: an id that
\* is not in the store goes on to processPrompt
PostPrompt_NoCheck(prompt, repo, sessionId) ==
  /\ nDispatch + PendingPrompts < MaxDispatches
  /\ UNCHANGED <<fileVars, listVars, putVars, saveVars, sessions, objects, nextId, now, successes, deleted,
                 createdWith>>
  /\ CASE prompt = NoPrompt ->
            /\ lastResp' = Resp("prompt", 400, sessionId, 0, <<>>, "Prompt is required")
            /\ UNCHANGED <<dispatches, nDispatch, repoVars>>
       [] prompt # NoPrompt /\ sessionId # NoSession ->
            /\ StartDispatch(prompt, sessionId, Cwd)
            /\ UNCHANGED <<repoVars, lastResp>>
       [] prompt # NoPrompt /\ sessionId = NoSession /\ repo = NoRepo ->
            /\ StartDispatch(prompt, sessionId, Cwd)
            /\ UNCHANGED <<repoVars, lastResp>>
       [] prompt # NoPrompt /\ sessionId = NoSession /\ repo # NoRepo ->
            LET r == CloneOrGet(repo)
            IN CASE r.kind = "invalid" ->
                      /\ lastResp' = Resp("prompt", 400, sessionId, 0, <<>>,
                                          "Invalid git URL format")
                      /\ UNCHANGED <<dispatches, nDispatch, repoVars>>
                 [] r.kind = "exists" ->
                      /\ StartDispatch(prompt, sessionId, r.path)
                      /\ UNCHANGED <<repoVars, lastResp>>
                 [] r.kind = "clone" ->
                      /\ StartClone("prompt", repo, r, prompt)
                      /\ UNCHANGED <<dispatches, nDispatch, lastResp>>

\* POST /claude/prompt {prompt, repo?, sessionId?}; `continue` is only handed
\* to the engine
PostPrompt(prompt, repo, sessionId) ==
  /\ nDispatch + PendingPrompts < MaxDispatches
  /\ UNCHANGED <<fileVars, listVars, putVars, saveVars, sessions, objects, nextId, now, successes, deleted,
                 createdWith>>
  /\ CASE prompt = NoPrompt ->
            /\ lastResp' = Resp("prompt", 400, sessionId, 0, <<>>, "Prompt is required")
            /\ UNCHANGED <<dispatches, nDispatch, repoVars>>
       [] prompt # NoPrompt /\ sessionId # NoSession /\ GetSession(sessionId) = <<>> ->
            /\ lastResp' = Resp("prompt", 404, sessionId, 0, <<>>, "Session not found")
            /\ UNCHANGED <<dispatches, nDispatch, repoVars>>
       [] prompt # NoPrompt /\ sessionId # NoSession /\ GetSession(sessionId) # <<>> ->
            /\ StartDispatch(prompt, sessionId, Cwd)
            /\ UNCHANGED <<repoVars, lastResp>>
       [] prompt # NoPrompt /\ sessionId = NoSession /\ repo = NoRepo ->
            /\ StartDispatch(prompt, sessionId, Cwd)
            /\ UNCHANGED <<repoVars, lastResp>>
       [] prompt # NoPrompt /\ sessionId = NoSession /\ repo # NoRepo ->
            LET r == CloneOrGet(repo)
            IN CASE r.kind = "invalid" ->
                      /\ lastResp' = Resp("prompt", 400, sessionId, 0, <<>>,
                                          "Invalid git URL format")
                      /\ UNCHANGED <<dispatches, nDispatch, repoVars>>
                 [] r.kind = "exists" ->
                      /\ StartDispatch(prompt, sessionId, r.path)
                      /\ UNCHANGED <<repoVars, lastResp>>
                 [] r.kind = "clone" ->
                      /\ StartClone("prompt", repo, r, prompt)
                      /\ UNCHANGED <<dispatches, nDispatch, lastResp>>

\* the engine yields one more message, pushed to the session's messages as it
\* arrives as well as to the call's own array
EngineYields_PushesToSession(k) ==
  LET d == dispatches[k]
  IN /\ Len(d.messages) < MaxMessages
     /\ dispatches' = [dispatches EXCEPT ![k].messages =
                         Append(@, Message(k, Len(@) + 1))]
     /\ objects' = IF d.session /\ d.sessionId # NoSession
                   THEN [objects EXCEPT ![d.sessionId].messages =
                           Append(@, Message(k, Len(d.messages) + 1))]
                   ELSE objects
     /\ UNCHANGED <<fileVars, listVars, putVars, saveVars, sessions, nextId,
                    nDispatch, now, successes, deleted, createdWith, repoVars,
                    lastResp>>

\* the engine yields one more message: messages.push(message)
EngineYields(k) ==
  /\ Len(dispatches[k].messages) < MaxMessages
  /\ dispatches' = [dispatches EXCEPT ![k].messages =
                      Append(@, Message(k, Len(@) + 1))]
  /\ UNCHANGED <<fileVars, listVars, putVars, saveVars, sessions, objects, nextId, nDispatch, now, successes,
                 deleted, createdWith, repoVars, lastResp>>

\* the end of the drain with `if (sessionId)` for `if (session && sessionId)`:
\* a session is made up for an id that did not resolve
EngineDone_Upserts(k) ==
  LET d == dispatches[k]
  IN /\ IF d.sessionId # NoSession
        THEN /\ \E t \in ClockReadings :
                  /\ now' = t
                  /\ objects' = With(objects, d.sessionId,
                                     UpdateSession(
                                       IF d.sessionId \in ObjectIds
                                       THEN objects[d.sessionId]
                                       ELSE NewSession(d.sessionId, d.workingDirectory,
                                                       NoRepo, t),
                                       d, t))
             /\ sessions' = sessions \cup {d.sessionId}
        ELSE UNCHANGED <<objects, sessions, now>>
     /\ successes' = IF d.sessionId \in DOMAIN successes
                     THEN [successes EXCEPT ![d.sessionId] = @ + 1]
                     ELSE successes
     /\ lastResp' = Resp("prompt", 200, d.sessionId, Len(d.messages),
                         d.workingDirectory, None)
     /\ dispatches' = Without(dispatches, k)
     /\ UNCHANGED <<fileVars, listVars, putVars, saveVars, nextId, nDispatch, deleted,
                    createdWith, repoVars>>

\* the drain ends: processPrompt lines 126-143, then res.json(response)
EngineDone(k) ==
  LET d == dispatches[k]
  IN /\ IF d.session /\ d.sessionId # NoSession
        THEN /\ \E t \in ClockReadings :
                  /\ now' = t
                  /\ objects' = [objects EXCEPT
                                   ![d.sessionId] = UpdateSession(@, d, t)]
             /\ sessions' = sessions \cup {d.sessionId}
        ELSE UNCHANGED <<objects, sessions, now>>
     /\ successes' = IF d.sessionId \in DOMAIN successes
                     THEN [successes EXCEPT ![d.sessionId] = @ + 1]
                     ELSE successes
     /\ lastResp' = Resp("prompt", 200, d.sessionId, Len(d.messages),
                         d.workingDirectory, None)
     /\ dispatches' = Without(dispatches, k)
     /\ UNCHANGED <<fileVars, listVars, putVars, saveVars, nextId, nDispatch, deleted, createdWith, repoVars>>

\* the failing drain with the update moved into a `finally`: the messages
\* collected so far reach the session before the error propagates
EngineFails_Finally(k) ==
  LET d == dispatches[k]
  IN /\ IF d.session /\ d.sessionId # NoSession
        THEN /\ \E t \in ClockReadings :
                  /\ now' = t
                  /\ objects' = [objects EXCEPT
                                   ![d.sessionId] = UpdateSession(@, d, t)]
             /\ sessions' = sessions \cup {d.sessionId}
        ELSE UNCHANGED <<objects, sessions, now>>
     /\ lastResp' = Resp("prompt", 500, d.sessionId, 0, <<>>, "engine failure")
     /\ dispatches' = Without(dispatches, k)
     /\ UNCHANGED <<fileVars, listVars, putVars, saveVars, nextId, nDispatch, successes, deleted,
                    createdWith, repoVars>>

\* query() throws during the drain: the error leaves processPrompt and the
\* route's catch answers 500 with the error's message in details
EngineFails(k) ==
  LET d == dispatches[k]
  IN /\ lastResp' = Resp("prompt", 500, d.sessionId, 0, <<>>, "engine failure")
     /\ dispatches' = Without(dispatches, k)
     /\ UNCHANGED <<fileVars, listVars, putVars, saveVars, sessions, objects, nextId, nDispatch, now,
                    successes, deleted, createdWith, repoVars>>

\* resolveRepoPath for a reference that is not a URL: getRepositoryPath(repo)
ResolveShortName(repo) == RefInfo[repo].shortPath

\* DELETE /git/repo/:repo
DeleteRepo(repo) ==
  /\ repo # NoRepo
  /\ UNCHANGED <<fileVars, listVars, puts, saveVars, sessionVars>>
  /\ IF RefInfo[repo].isUrl
     THEN LET r == CloneOrGet(repo)
          IN CASE r.kind = "invalid" ->
                    /\ lastResp' = Resp("deleteRepo", 400, NoSession, 0, <<>>,
                                        "Invalid git URL format")
                    /\ UNCHANGED <<repoVars, written>>
               [] r.kind = "exists" ->
                    /\ dirs' = Rm(dirs, r.path)
                    /\ origin' = Forget(origin, Rm(dirs, r.path))
                    /\ written' = Rm(written, r.path)
                    /\ lastResp' = Resp("deleteRepo", 200, NoSession, 0, r.path, None)
                    /\ UNCHANGED <<clones, cloneResult>>
               [] r.kind = "clone" ->
                    /\ StartClone("deleteRepo", repo, r, NoPrompt)
                    /\ UNCHANGED <<lastResp, written>>
     ELSE /\ dirs' = Rm(dirs, ResolveShortName(repo))
          /\ origin' = Forget(origin, Rm(dirs, ResolveShortName(repo)))
          /\ written' = Rm(written, ResolveShortName(repo))
          /\ lastResp' = Resp("deleteRepo", 200, NoSession, 0,
                              ResolveShortName(repo), None)
          /\ UNCHANGED <<clones, cloneResult>>

\* POST /git/init {url}
GitInit(url) ==
  /\ UNCHANGED <<fileVars, listVars, putVars, saveVars, sessionVars>>
  /\ IF url = NoRepo
     THEN /\ lastResp' = Resp("init", 400, NoSession, 0, <<>>, "Git URL is required")
          /\ UNCHANGED repoVars
     ELSE LET r == CloneOrGet(url)
          IN CASE r.kind = "invalid" ->
                    /\ lastResp' = Resp("init", 400, NoSession, 0, <<>>,
                                        "Invalid git URL format")
                    /\ UNCHANGED repoVars
               [] r.kind = "exists" ->
                    /\ lastResp' = RepoResp("init", 409, r.repoName, r.path,
                                            "Repository already exists")
                    /\ UNCHANGED repoVars
               [] r.kind = "clone" ->
                    /\ StartClone("init", url, r, NoPrompt)
                    /\ UNCHANGED lastResp

\* the URLs a caller passes to cloneOrGetRepository
CallUrls == { UrlA, UrlG, UrlAGit, UrlDots, BadUrl }

\* cloneOrGetRepository(url) called directly, with the default reposPath
CallCloneOrGetRepository(url) ==
  /\ UNCHANGED <<fileVars, listVars, putVars, saveVars, sessionVars, lastResp>>
  /\ LET r == CloneOrGet(url)
     IN CASE r.kind = "invalid" ->
               /\ cloneResult' = CloneResult(FALSE, <<>>, <<>>, url, <<>>,
                                             "Invalid git URL format")
               /\ UNCHANGED <<dirs, clones, origin>>
          [] r.kind = "exists" ->
               /\ cloneResult' = CloneResult(TRUE, r.repoName, r.path, url,
                                             <<TRUE>>, None)
               /\ UNCHANGED <<dirs, clones, origin>>
          [] r.kind = "clone" ->
               StartClone("call", url, r, NoPrompt)

\* GET /git/status/:repo from simpleGit(resolveResult.path) on: the directory
\* must be there for simpleGit, checkIsRepo answers, and status, branch and
\* getRemotes run together; `outcome` is what git finds in the directory
StatusAnswer(ds, path, outcome) ==
  CASE PathResolve(path, <<>>) \notin ds ->
         Resp("status", 500, NoSession, 0, path, "Failed to get repository status")
    [] outcome = "throws" ->
         Resp("status", 500, NoSession, 0, path, "Failed to get repository status")
    [] outcome = "notRepo" ->
         Resp("status", 400, NoSession, 0, path, "Not a git repository")
    [] OTHER ->
         Resp("status", 200, NoSession, 0, path, None)

\* the :repo values of the status requests explored
StatusRepos == { UrlA, NameA, BadUrl }

\* GET /git/status/:repo
GitStatus(repo, outcome) ==
  /\ repo # NoRepo
  /\ UNCHANGED <<fileVars, listVars, putVars, saveVars, sessionVars>>
  /\ IF RefInfo[repo].isUrl
     THEN LET r == CloneOrGet(repo)
          IN CASE r.kind = "invalid" ->
                    /\ lastResp' = Resp("status", 400, NoSession, 0, <<>>,
                                        "Invalid git URL format")
                    /\ UNCHANGED repoVars
               [] r.kind = "exists" ->
                    /\ lastResp' = StatusAnswer(dirs, r.path, outcome)
                    /\ UNCHANGED repoVars
               [] r.kind = "clone" ->
                    /\ StartClone("status", repo, r, outcome)
                    /\ UNCHANGED lastResp
     ELSE /\ lastResp' = StatusAnswer(dirs, ResolveShortName(repo), outcome)
          /\ UNCHANGED repoVars

(***************************************************************************)
(* claudeService called directly                                           *)
(***************************************************************************)

\* the directories a caller passes to createSession and processPrompt
ServiceDirectories == { Cwd, PathA }

\* an id that randomUUID never returns
UnknownSession == MaxSessions + 1

\* the ids a caller can pass to processPrompt: none, one createSession has
\* returned, or one that was never a session
KnownIds == { id \in SessionIds : id < nextId } \cup { NoSession, UnknownSession }

\* createSession(workingDirectory) called directly
CallCreateSession(workingDirectory) ==
  /\ nextId <= MaxSessions
  /\ CreateSession(workingDirectory, NoRepo)
  /\ UNCHANGED <<fileVars, listVars, putVars, saveVars, repoVars, dispatches, nDispatch,
                 deleted>>

\* processPrompt({prompt, sessionId}, workingDirectory) called directly, up
\* to its suspension in the drain
CallProcessPrompt(prompt, sessionId, workingDirectory) ==
  /\ nDispatch < MaxDispatches
  /\ StartDispatch(prompt, sessionId, workingDirectory)
  /\ UNCHANGED <<fileVars, listVars, putVars, saveVars, repoVars, sessions, objects,
                 nextId, now, successes, deleted, createdWith, lastResp>>

(***************************************************************************)
(* GET /git/repos                                                          *)
(***************************************************************************)

\* the names of the immediate subdirectories of the repos root
SubdirNames(ds) ==
  LET root == AbsSegs(DEFAULT_REPOS_PATH)
  IN { AbsSegs(d)[Len(root) + 1] :
         d \in { e \in ds : /\ Len(AbsSegs(e)) = Len(root) + 1
                            /\ SubSeq(AbsSegs(e), 1, Len(root)) = root } }

\* a set as the sequence fs.readdir returns it, in some order
RECURSIVE ReadDir(_)
ReadDir(names) ==
  IF names = {} THEN <<>>
  ELSE LET n == CHOOSE x \in names : TRUE
       IN <<n>> \o ReadDir(names \ {n})

\* repoDirs: the directory entries of the repos root, by name
RepoDirs(ds) == ReadDir(SubdirNames(ds))

\* how the git queries on one directory end: it is a repository and they all
\* succeed, checkIsRepo says no, or one of them throws
ProbeOutcomes == {"repo", "notRepo", "throws"}

\* the entry the callback of repoDirs.map returns for one directory
Probe(repoName, outcome) ==
  [name |-> repoName,
   path |-> PathJoin(DEFAULT_REPOS_PATH, repoName),
   isGitRepo |-> outcome = "repo",
   error |-> CASE outcome = "repo" -> None
               [] outcome = "notRepo" -> "Not a git repository"
               [] outcome = "throws" -> "git error"]

\* the listing built with Promise.all and no try around the queries: one
\* directory whose query throws fails the whole request
ListRepos_AllOrNothing(outcome) ==
  /\ DOMAIN outcome = SubdirNames(dirs)
  /\ UNCHANGED <<fileVars, listVars, putVars, sessionVars, repoVars, saveVars>>
  /\ IF ~Exists(DEFAULT_REPOS_PATH)
     THEN lastResp' = Resp("repos", 200, NoSession, 0, DEFAULT_REPOS_PATH, None)
     ELSE IF \E n \in DOMAIN outcome : outcome[n] = "throws"
     THEN lastResp' = Resp("repos", 500, NoSession, 0, DEFAULT_REPOS_PATH,
                           "Failed to list repositories")
     ELSE LET repoDirs == RepoDirs(dirs)
          IN lastResp' = [Resp("repos", 200, NoSession, 0, DEFAULT_REPOS_PATH, None)
                            EXCEPT !.repositories =
                              [i \in DOMAIN repoDirs |->
                                 Probe(repoDirs[i], outcome[repoDirs[i]])]]

\* GET /git/repos, the git queries on each directory ending as `outcome` says
ListRepos(outcome) ==
  /\ DOMAIN outcome = SubdirNames(dirs)
  /\ UNCHANGED <<fileVars, listVars, putVars, sessionVars, repoVars, saveVars>>
  /\ IF ~Exists(DEFAULT_REPOS_PATH)
     THEN lastResp' = Resp("repos", 200, NoSession, 0, DEFAULT_REPOS_PATH, None)
     ELSE LET repoDirs == RepoDirs(dirs)
          IN lastResp' = [Resp("repos", 200, NoSession, 0, DEFAULT_REPOS_PATH, None)
                            EXCEPT !.repositories =
                              [i \in DOMAIN repoDirs |->
                                 Probe(repoDirs[i], outcome[repoDirs[i]])]]

(***************************************************************************)
(* POST /git/save                                                          *)
(***************************************************************************)

MaxSaves == 2
MaxFiles == 1

Messages == {"m"}
NoMessage == ""

\* what POST /git/save is given as `repo`: nothing, a name, URLs, a path
SaveRepos == { NoRepo, NameA, UrlA, BadUrl, PathA }

SaveIds == DOMAIN saves

\* the response of a save request that has not answered yet
NoSaveResp == [status |-> 0, message |-> None, commit |-> 0, changedFiles |-> 0]

\* a save request past its validation, about to call git.checkIsRepo()
NewSave(message, repoPath) ==
  [pc |-> "checkIsRepo", message |-> message, repoPath |-> repoPath,
   changed |-> 0, commit |-> 0, calls |-> <<>>, resp |-> NoSaveResp]

\* one more git command made by request k, how it ended and what it returned
\* (status: the number of files; commit: the commit id, 0 for none)
Called(k, cmd, ok, result) ==
  Append(saves[k].calls, [cmd |-> cmd, ok |-> ok, result |-> result])

\* request k answers after its latest git command and ends
Answer(k, calls, status, message, commit, changedFiles) ==
  /\ saves' = [saves EXCEPT ![k].pc = "done",
                            ![k].calls = calls,
                            ![k].resp = [status |-> status, message |-> message,
                                         commit |-> commit,
                                         changedFiles |-> changedFiles]]
  /\ lastResp' = Resp("save", status, NoSession, 0, saves[k].repoPath, message)

\* git command cmd of request k throws: the handler's catch answers 500
Throws(k, cmd) ==
  Answer(k, Called(k, cmd, FALSE, 0), 500, "Failed to save changes", 0, 0)

\* simpleGit(repoPath), which throws when the directory does not exist; a
\* relative repoPath is taken from the server's working directory
SimpleGit(message, repoPath) ==
  IF Exists(PathResolve(Cwd, repoPath))
  THEN /\ saves' = Append(saves, NewSave(message, repoPath))
       /\ UNCHANGED lastResp
  ELSE /\ lastResp' = Resp("save", 500, NoSession, 0, repoPath,
                           "Failed to save changes")
       /\ UNCHANGED saves

\* POST /git/save {message, repo} up to git.checkIsRepo()
Save(message, repo) ==
  /\ Len(saves) + Cardinality({c \in CloneIds : clones[c].caller = "save"}) < MaxSaves
  /\ UNCHANGED <<fileVars, listVars, putVars, sessionVars, work>>
  /\ CASE message = NoMessage ->
            /\ lastResp' = Resp("save", 400, NoSession, 0, <<>>,
                                "Commit message is required")
            /\ UNCHANGED <<saves, repoVars>>
       [] message # NoMessage /\ repo = NoRepo ->
            /\ lastResp' = Resp("save", 400, NoSession, 0, <<>>,
                                "Repository path or URL is required")
            /\ UNCHANGED <<saves, repoVars>>
       [] message # NoMessage /\ repo # NoRepo /\ ~LooksLikeUrl(repo) ->
            /\ SimpleGit(message, repo)
            /\ UNCHANGED repoVars
       [] message # NoMessage /\ repo # NoRepo /\ LooksLikeUrl(repo) ->
            LET r == CloneOrGet(repo)
            IN CASE r.kind = "invalid" ->
                      /\ lastResp' = Resp("save", 400, NoSession, 0, <<>>,
                                          "Failed to access repository")
                      /\ UNCHANGED <<saves, repoVars>>
                 [] r.kind = "exists" ->
                      /\ SimpleGit(message, r.path)
                      /\ UNCHANGED repoVars
                 [] r.kind = "clone" ->
                      /\ StartClone("save", repo, r, message)
                      /\ UNCHANGED <<saves, lastResp>>

\* git.checkIsRepo() returns for request k: true, false, or it throws
SaveCheckIsRepo(k, isRepo, ok) ==
  /\ saves[k].pc = "checkIsRepo"
  /\ UNCHANGED <<fileVars, listVars, putVars, sessionVars, repoVars, work>>
  /\ IF ~ok THEN Throws(k, "checkIsRepo")
     ELSE IF ~isRepo
     THEN Answer(k, Called(k, "checkIsRepo", TRUE, 0), 400,
                 "Not a git repository", 0, 0)
     ELSE /\ saves' = [saves EXCEPT ![k].pc = "add",
                                    ![k].calls = Called(k, "checkIsRepo", TRUE, 0)]
          /\ UNCHANGED lastResp

\* git.add(".") returns for request k: everything modified is staged
SaveAdd(k, ok) ==
  /\ saves[k].pc = "add"
  /\ UNCHANGED <<fileVars, listVars, putVars, sessionVars, repoVars>>
  /\ IF ~ok
     THEN /\ Throws(k, "add")
          /\ UNCHANGED work
     ELSE /\ work' = [work EXCEPT !.staged = @ + work.unstaged, !.unstaged = 0]
          /\ saves' = [saves EXCEPT ![k].pc = "status",
                                    ![k].calls = Called(k, "add", TRUE, 0)]
          /\ UNCHANGED lastResp

\* git.status() with the "no changes" answer taken out: the request goes on
\* to commit whatever the status shows
SaveStatus_AlwaysCommits(k, ok) ==
  /\ saves[k].pc = "status"
  /\ UNCHANGED <<fileVars, listVars, putVars, sessionVars, repoVars, work>>
  /\ IF ~ok THEN Throws(k, "status")
     ELSE LET files == work.staged + work.unstaged
          IN /\ saves' = [saves EXCEPT ![k].pc = "commit",
                                       ![k].changed = files,
                                       ![k].calls = Called(k, "status", TRUE, files)]
             /\ UNCHANGED lastResp

\* git.status() returns for request k: status.files are the staged and the
\* modified files; with none of them the request answers "No changes to commit"
SaveStatus(k, ok) ==
  /\ saves[k].pc = "status"
  /\ UNCHANGED <<fileVars, listVars, putVars, sessionVars, repoVars, work>>
  /\ IF ~ok THEN Throws(k, "status")
     ELSE LET files == work.staged + work.unstaged
          IN IF files = 0
             THEN Answer(k, Called(k, "status", TRUE, 0), 200,
                         "No changes to commit", 0, 0)
             ELSE /\ saves' = [saves EXCEPT ![k].pc = "commit",
                                            ![k].changed = files,
                                            ![k].calls = Called(k, "status", TRUE, files)]
                  /\ UNCHANGED lastResp

\* git.commit(message) whose failure is logged and passed over: the request
\* goes on to push
SaveCommit_Swallows(k, ok) ==
  /\ saves[k].pc = "commit"
  /\ UNCHANGED <<fileVars, listVars, putVars, sessionVars, repoVars>>
  /\ LET made == IF ok /\ work.staged > 0 THEN work.commits + 1 ELSE 0
     IN /\ work' = IF made > 0
                   THEN [work EXCEPT !.commits = made, !.staged = 0]
                   ELSE work
        /\ saves' = [saves EXCEPT ![k].pc = "push",
                                  ![k].commit = made,
                                  ![k].calls = Called(k, "commit", ok, made)]
        /\ UNCHANGED lastResp

\* git.commit(message) returns for request k: what is staged becomes a commit;
\* with nothing staged (another request committed it meanwhile) git makes no
\* commit and simple-git resolves with an empty commit id
SaveCommit(k, ok) ==
  /\ saves[k].pc = "commit"
  /\ UNCHANGED <<fileVars, listVars, putVars, sessionVars, repoVars>>
  /\ IF ~ok
     THEN /\ Throws(k, "commit")
          /\ UNCHANGED work
     ELSE LET made == IF work.staged > 0 THEN work.commits + 1 ELSE 0
          IN /\ work' = IF made > 0
                        THEN [work EXCEPT !.commits = made, !.staged = 0]
                        ELSE work
             /\ saves' = [saves EXCEPT ![k].pc = "push",
                                       ![k].commit = made,
                                       ![k].calls = Called(k, "commit", TRUE, made)]
             /\ UNCHANGED lastResp

\* git.push() returns for request k: the remote has every local commit, and
\* the request answers with the commit id and the number of changed files
SavePush(k, ok) ==
  /\ saves[k].pc = "push"
  /\ UNCHANGED <<fileVars, listVars, putVars, sessionVars, repoVars>>
  /\ IF ~ok
     THEN /\ Throws(k, "push")
          /\ UNCHANGED work
     ELSE /\ work' = [work EXCEPT !.pushed = work.commits]
          /\ Answer(k, Called(k, "push", TRUE, 0), 200,
                    "Changes saved successfully", saves[k].commit,
                    saves[k].changed)

\* PUT /git/repos/:repo/files/*: a file of the repository is written
WriteFile ==
  /\ Exists(PathA)
  /\ work.unstaged < MaxFiles
  /\ work' = [work EXCEPT !.unstaged = @ + 1]
  /\ UNCHANGED <<fileVars, listVars, putVars, sessionVars, repoVars, saves, lastResp>>

(***************************************************************************)
(* PUT /git/repos/:name/files/*                                            *)
(***************************************************************************)

MaxPuts == 2

\* req.params[0]: nothing, a file, a file in a subdirectory, a path that
\* leaves the repository
NoPath == <<>>
FileF == <<"f">>
FileDF == <<"d", "/", "f">>
FileUp == <<".", ".", "/", "f">>
PutPaths == { NoPath, FileF, FileDF, FileUp }

\* req.params.name
PutNames == { NoRepo, NameA, UrlA, BadUrl }

\* req.body.content as <<the string>>, <<>> for undefined
PutContents == { <<>>, <<"x">> }

PutIds == DOMAIN puts

\* the response of a PUT request that has not answered yet
NoPutResp == [status |-> 0, created |-> FALSE, message |-> None]

\* path.dirname of an absolute, normalised path
Dirname(p) ==
  LET segs == AbsSegs(p)
  IN IF segs = <<>> THEN Sep
     ELSE Sep \o JoinSlash(SubSeq(segs, 1, Len(segs) - 1))

\* a PUT request as it arrives
NewPut(name, filePath) ==
  [pc |-> "start", name |-> name, filePath |-> filePath, fullPath |-> <<>>,
   isNewFile |-> FALSE, clone |-> 0, resp |-> NoPutResp]

\* request p answers and ends
PutAnswer(p, status, created, message) ==
  [p EXCEPT !.pc = "done",
            !.resp = [status |-> status, created |-> created,
                      message |-> message]]

\* request p after resolveRepoPath gave repoPath: safeResolveFilePath, then
\* the suspension in fs.mkdir
PutResolved(p, repoPath) ==
  LET safePathResult == SafeResolveFilePath(repoPath, p.filePath)
  IN IF ~safePathResult.success
     THEN PutAnswer(p, 400, FALSE, safePathResult.error)
     ELSE [p EXCEPT !.pc = "mkdir", !.fullPath = safePathResult.fullPath]

\* PUT /git/repos/:name/files/* up to its first suspension
Put(name, filePath, content) ==
  /\ Len(puts) < MaxPuts
  /\ UNCHANGED <<fileVars, listVars, saveVars, sessionVars, lastResp, written>>
  /\ LET p == NewPut(name, filePath)
     IN CASE name = NoRepo ->
               /\ puts' = Append(puts, PutAnswer(p, 400, FALSE,
                                                 "Repository name is required"))
               /\ UNCHANGED repoVars
          [] name # NoRepo /\ filePath = NoPath ->
               /\ puts' = Append(puts, PutAnswer(p, 400, FALSE,
                                                 "File path is required"))
               /\ UNCHANGED repoVars
          [] name # NoRepo /\ filePath # NoPath /\ content = <<>> ->
               /\ puts' = Append(puts, PutAnswer(p, 400, FALSE,
                                                 "File content is required"))
               /\ UNCHANGED repoVars
          [] name # NoRepo /\ filePath # NoPath /\ content # <<>> ->
               IF RefInfo[name].isUrl
               THEN LET r == CloneOrGet(name)
                    IN CASE r.kind = "invalid" ->
                              /\ puts' = Append(puts, PutAnswer(p, 400, FALSE,
                                                   "Invalid git URL format"))
                              /\ UNCHANGED repoVars
                         [] r.kind = "exists" ->
                              /\ puts' = Append(puts, PutResolved(p, r.path))
                              /\ UNCHANGED repoVars
                         [] r.kind = "clone" ->
                              /\ puts' = Append(puts, [p EXCEPT !.pc = "clone",
                                                         !.clone = FreeCloneId])
                              /\ StartClone("put", name, r, NoPrompt)
               ELSE /\ puts' = Append(puts, PutResolved(p, ResolveShortName(name)))
                    /\ UNCHANGED repoVars

\* fs.mkdir(parentDir, {recursive: true}) returns for request k; it cannot
\* succeed when a regular file is in the way
PutMkdir(k, ok) ==
  LET parentDir == Dirname(puts[k].fullPath)
  IN /\ puts[k].pc = "mkdir"
     /\ ok => PathAndAncestors(AbsSegs(parentDir)) \cap written = {}
     /\ UNCHANGED <<fileVars, listVars, saveVars, sessionVars, lastResp, written,
                    clones, origin, cloneResult>>
     /\ IF ok
        THEN /\ dirs' = MkdirP(dirs, parentDir)
             /\ puts' = [puts EXCEPT ![k].pc = "access"]
        ELSE /\ puts' = [puts EXCEPT ![k] = PutAnswer(@, 500, FALSE,
                                                      "Failed to update file")]
             /\ UNCHANGED dirs

\* fs.access(fullPath) returns for request k: the file is new when it throws
PutAccess(k) ==
  /\ puts[k].pc = "access"
  /\ puts' = [puts EXCEPT ![k].pc = "write",
                          ![k].isNewFile = puts[k].fullPath \notin written \cup dirs]
  /\ UNCHANGED <<fileVars, listVars, saveVars, sessionVars, repoVars, lastResp,
                 written>>

\* fs.writeFile(fullPath, content) returns for request k; it cannot succeed
\* on a directory or without the parent directory
PutWrite(k, ok) ==
  /\ puts[k].pc = "write"
  /\ ok => /\ puts[k].fullPath \notin dirs
           /\ Dirname(puts[k].fullPath) \in dirs
  /\ UNCHANGED <<fileVars, listVars, saveVars, sessionVars, repoVars, lastResp>>
  /\ IF ok
     THEN /\ written' = written \cup {puts[k].fullPath}
          /\ puts' = [puts EXCEPT ![k].pc = "stat"]
     ELSE /\ puts' = [puts EXCEPT ![k] = PutAnswer(@, 500, FALSE,
                                                   "Failed to update file")]
          /\ UNCHANGED written

\* fs.stat(fullPath) returns for request k, then res.json
PutStat(k) ==
  /\ puts[k].pc = "stat"
  /\ UNCHANGED <<fileVars, listVars, saveVars, sessionVars, repoVars, lastResp,
                 written>>
  /\ puts' = [puts EXCEPT ![k] =
                IF puts[k].fullPath \in written \cup dirs
                THEN PutAnswer(@, 200, @.isNewFile,
                               IF @.isNewFile THEN "File created successfully"
                               ELSE "File updated successfully")
                ELSE PutAnswer(@, 500, FALSE, "Failed to update file")]

\* git.clone returns. It succeeds only into a directory that is not there yet
\* and leaves the clone behind; when it fails, git has removed what it made,
\* or (a checkout that failed after the fetch) has left the directory behind.
\* Then the suspended handler goes on.
FinishClone(c, ok, leaves) ==
  LET call    == clones[c]
      cloned  == IF leaves THEN MkdirP(dirs, call.path) ELSE dirs
      made    == IF ok THEN With(origin, call.path, call.url) ELSE origin
  IN /\ ok => (leaves /\ ~Exists(call.path))
     /\ clones' = Without(clones, c)
     /\ cloneResult' =
          IF call.caller # "call" THEN cloneResult
          ELSE IF ok
          THEN CloneResult(TRUE, call.repoName, call.path, call.url, <<FALSE>>,
                           None)
          ELSE CloneResult(FALSE, call.repoName, call.path, call.url, <<>>,
                           "clone failed")
     /\ written' = IF call.caller = "deleteRepo" /\ ok
                  THEN Rm(written, call.path)
                  ELSE written
     /\ puts' = IF call.caller = "put"
               THEN [k \in PutIds |->
                       IF puts[k].pc = "clone" /\ puts[k].clone = c
                       THEN IF ok
                            THEN PutResolved(puts[k], call.path)
                            ELSE PutAnswer(puts[k], 400, FALSE, "clone failed")
                       ELSE puts[k]]
               ELSE puts
     /\ UNCHANGED <<fileVars, listVars, deleted>>
     /\ CASE call.caller = "sessions" ->
               /\ dirs' = cloned
               /\ origin' = made
               /\ UNCHANGED <<dispatches, nDispatch, saveVars>>
               /\ IF ok
                  THEN CreateSession(call.path, call.url)
                  ELSE /\ lastResp' = Resp("createSession", 400, NoSession, 0,
                                           call.path, "clone failed")
                       /\ UNCHANGED <<sessions, objects, nextId, createdWith,
                                      successes, now>>
          [] call.caller = "prompt" ->
               /\ dirs' = cloned
               /\ origin' = made
               /\ UNCHANGED <<sessions, objects, nextId, createdWith, successes,
                              now, saveVars>>
               /\ IF ok
                  THEN /\ StartDispatch(call.prompt, NoSession, call.path)
                       /\ UNCHANGED lastResp
                  ELSE /\ lastResp' = Resp("prompt", 400, NoSession, 0, call.path,
                                           "clone failed")
                       /\ UNCHANGED <<dispatches, nDispatch>>
          [] call.caller = "init" ->
               /\ dirs' = cloned
               /\ origin' = made
               /\ UNCHANGED <<sessions, objects, nextId, createdWith, successes,
                              now, dispatches, nDispatch, saveVars>>
               /\ lastResp' = IF ok
                               THEN RepoResp("init", 200, call.repoName,
                                             call.path, None)
                               ELSE RepoResp("init", 400, <<>>, <<>>,
                                             "clone failed")
          [] call.caller = "save" ->
               /\ dirs' = cloned
               /\ origin' = made
               /\ UNCHANGED <<sessions, objects, nextId, createdWith, successes,
                              now, dispatches, nDispatch, work>>
               /\ IF ok
                  THEN /\ saves' = Append(saves, NewSave(call.prompt, call.path))
                       /\ UNCHANGED lastResp
                  ELSE /\ lastResp' = Resp("save", 400, NoSession, 0, <<>>,
                                           "Failed to access repository")
                       /\ UNCHANGED saves
          [] call.caller = "status" ->
               /\ dirs' = cloned
               /\ origin' = made
               /\ UNCHANGED <<sessions, objects, nextId, createdWith, successes,
                              now, dispatches, nDispatch, saveVars>>
               /\ lastResp' = IF ok
                               THEN StatusAnswer(cloned, call.path, call.prompt)
                               ELSE Resp("status", 400, NoSession, 0, call.path,
                                         "clone failed")
          [] call.caller = "call" ->
               /\ dirs' = cloned
               /\ origin' = made
               /\ UNCHANGED <<sessions, objects, nextId, createdWith, successes,
                              now, dispatches, nDispatch, saveVars, lastResp>>
          [] call.caller = "put" ->
               /\ dirs' = cloned
               /\ origin' = made
               /\ UNCHANGED <<sessions, objects, nextId, createdWith, successes,
                              now, dispatches, nDispatch, saveVars, lastResp>>
          [] call.caller = "deleteRepo" ->
               /\ UNCHANGED <<sessions, objects, nextId, createdWith, successes,
                              now, dispatches, nDispatch, saveVars>>
               /\ IF ok
                  THEN /\ dirs' = Rm(cloned, call.path)
                       /\ origin' = Forget(made, Rm(cloned, call.path))
                       /\ lastResp' = Resp("deleteRepo", 200, NoSession, 0,
                                           call.path, None)
                  ELSE /\ dirs' = cloned
                       /\ origin' = made
                       /\ lastResp' = Resp("deleteRepo", 400, NoSession, 0,
                                           call.path, "clone failed")

(***************************************************************************)
(* Spec: sessions, dispatches and the repositories they are bound to       *)
(***************************************************************************)

Init ==
  /\ fRoot = Sep
  /\ fPath = <<>>
  /\ fResult = <<>>
  /\ sessions = {}
  /\ objects = <<>>
  /\ nextId = 1
  /\ dispatches = <<>>
  /\ nDispatch = 0
  /\ dirs = InitialDirs
  /\ clones = <<>>
  /\ now = 0
  /\ lastResp = NoResp
  /\ successes = <<>>
  /\ deleted = {}
  /\ createdWith = <<>>
  /\ tree = NoTree
  /\ listing = <<>>
  /\ saves = <<>>
  /\ work = CleanTree
  /\ origin = NoOrigin
  /\ cloneResult = NoResult
  /\ puts = <<>>
  /\ written = {}

Next ==
  \/ \E repo \in SessionRepos \cup {NoRepo} : PostSessions(repo)
  \/ \E id \in SessionIds : GetSessionRoute(id)
  \/ ListSessions
  \/ \E id \in SessionIds : DeleteSessionRoute(id)
  \/ \E prompt \in Prompts \cup {NoPrompt}, repo \in SessionRepos \cup {NoRepo},
        sessionId \in SessionIds \cup {NoSession} :
       PostPrompt(prompt, repo, sessionId)
  \/ \E k \in DispatchIds : EngineYields(k)
  \/ \E k \in DispatchIds : EngineDone(k)
  \/ \E k \in DispatchIds : EngineFails(k)
  \/ \E repo \in { NameA } : DeleteRepo(repo)
  \/ \E c \in CloneIds, ok \in BOOLEAN, leaves \in BOOLEAN :
       FinishClone(c, ok, leaves)

Spec == Init /\ [][Next]_vars

(***************************************************************************)
(* Properties of the session store (Spec)                                  *)
(***************************************************************************)

IsPrefix(a, b) == Len(a) <= Len(b) /\ SubSeq(b, 1, Len(a)) = a

\* C2: a session deleted while a dispatch that looked it up is draining is
\* not put back by the post-drain update: after the dispatch completes,
\* getSession(id) is absent and getAllSessions is what it was
C2_DeletedNotPutBack ==
  [][\A k \in DispatchIds :
       ( /\ EngineDone(k)
         /\ dispatches[k].session
         /\ dispatches[k].sessionId \in deleted
         /\ ~HasSession(dispatches[k].sessionId) )
       => /\ dispatches[k].sessionId \notin sessions'
          /\ sessions' = sessions]_vars

\* C3: for every session in the store, totalPrompts is the number of
\* dispatches with that sessionId whose drain completed successfully
C3_TotalPromptsCountsSuccesses ==
  \A id \in sessions : objects[id].totalPrompts = successes[id]

\* C3 witness: one dispatch against a session has completed while a second
\* one against the same session is still draining
C3_Witness ==
  \E id \in sessions :
    /\ objects[id].totalPrompts = 1
    /\ \E k \in DispatchIds : dispatches[k].sessionId = id /\ dispatches[k].session

\* C4: when the engine fails during the drain of a session-bound prompt, the
\* session (messages, totalPrompts, lastPrompt, updatedAt) and the store are
\* unchanged, and the response is 500 carrying the cause
C4_FailureLeavesSession ==
  [][\A k \in DispatchIds :
       (EngineFails(k) /\ dispatches[k].session)
       => /\ objects'[dispatches[k].sessionId] = objects[dispatches[k].sessionId]
          /\ sessions' = sessions
          /\ lastResp'.op = "prompt"
          /\ lastResp'.status = 500
          /\ lastResp'.error = "engine failure"]_vars

\* C4 witness: a session-bound prompt has just failed, after an earlier one
\* against the same session succeeded
C4_Witness ==
  /\ lastResp.op = "prompt"
  /\ lastResp.status = 500
  /\ lastResp.sessionId \in sessions
  /\ objects[lastResp.sessionId].totalPrompts = 1
  /\ Len(objects[lastResp.sessionId].messages) = MaxMessages

\* C5: every session's workingDirectory is the one given to createSession
C5_WorkingDirectoryFixed ==
  \A id \in ObjectIds : objects[id].workingDirectory = createdWith[id]

\* C5 witness: a session bound to a cloned repository has taken a prompt
\* (sent with the server's own directory) and its repository was then deleted
C5_Witness ==
  \E id \in sessions :
    /\ objects[id].workingDirectory = RefInfo[UrlA].target
    /\ objects[id].totalPrompts >= 1
    /\ ~Exists(objects[id].workingDirectory)

\* C6: messages is append-only, and a dispatch appends its messages as the
\* engine produced them (first to last)
C6_AppendOnly ==
  [][/\ \A id \in ObjectIds : IsPrefix(objects[id].messages, objects'[id].messages)
     /\ \A k \in DispatchIds :
          (EngineDone(k) /\ dispatches[k].session)
          => LET id  == dispatches[k].sessionId
                 old == objects[id].messages
                 new == objects'[id].messages
                 n   == Len(dispatches[k].messages)
             IN /\ Len(new) = Len(old) + n
                /\ \A i \in 1..n : new[Len(old) + i] = Message(k, i)]_vars

\* C6 witness: a session holds the messages of two dispatches
C6_Witness ==
  \E id \in sessions :
    /\ Len(objects[id].messages) = 2 * MaxMessages
    /\ objects[id].messages[1].dispatch # objects[id].messages[2 * MaxMessages].dispatch

\* C7: a session no dispatch has completed against has no messages and
\* totalPrompts 0; once exactly one has, totalPrompts is 1 and the messages
\* are the ones that dispatch produced, as many as its result reports
C7_RoundTrip ==
  \A id \in sessions :
    /\ successes[id] = 0 =>
         /\ GetSession(id)[1].messages = <<>>
         /\ GetSession(id)[1].totalPrompts = 0
    /\ successes[id] = 1 =>
         /\ GetSession(id)[1].totalPrompts = 1
         /\ \A i \in 1..Len(GetSession(id)[1].messages) :
              GetSession(id)[1].messages[i] =
                Message(GetSession(id)[1].messages[1].dispatch, i)
         /\ (lastResp.op = "prompt" /\ lastResp.status = 200
               /\ lastResp.sessionId = id)
            => Len(GetSession(id)[1].messages) = lastResp.messages

\* C7 witness: the first prompt of a session has just succeeded with the
\* largest number of messages
C7_Witness ==
  \E id \in sessions :
    /\ successes[id] = 1
    /\ lastResp.op = "prompt"
    /\ lastResp.status = 200
    /\ lastResp.sessionId = id
    /\ lastResp.messages = MaxMessages

\* C8: once deleteSession(id) has returned true, getSession(id) is absent
\* (and deleteSession(id) finds nothing to delete) ever after
C8_DeletedStaysDeleted ==
  \A id \in deleted : GetSession(id) = <<>>

(***************************************************************************)
(* SpecRepo: repository references resolved by the git handlers            *)
(***************************************************************************)

NextService ==
  \/ \E workingDirectory \in ServiceDirectories :
       CallCreateSession(workingDirectory)
  \/ \E id \in SessionIds : DeleteSessionRoute(id)
  \/ \E prompt \in Prompts, sessionId \in KnownIds,
        workingDirectory \in ServiceDirectories :
       CallProcessPrompt(prompt, sessionId, workingDirectory)
  \/ \E k \in DispatchIds : EngineYields(k)
  \/ \E k \in DispatchIds : EngineDone(k)
  \/ \E k \in DispatchIds : EngineFails(k)

SpecService == Init /\ [][NextService]_vars

NextSave ==
  \/ \E message \in Messages \cup {NoMessage}, repo \in SaveRepos :
       Save(message, repo)
  \/ \E k \in SaveIds, isRepo \in BOOLEAN, ok \in BOOLEAN :
       SaveCheckIsRepo(k, isRepo, ok)
  \/ \E k \in SaveIds, ok \in BOOLEAN : SaveAdd(k, ok)
  \/ \E k \in SaveIds, ok \in BOOLEAN : SaveStatus(k, ok)
  \/ \E k \in SaveIds, ok \in BOOLEAN : SaveCommit(k, ok)
  \/ \E k \in SaveIds, ok \in BOOLEAN : SavePush(k, ok)
  \/ WriteFile
  \/ \E c \in CloneIds, ok \in BOOLEAN, leaves \in BOOLEAN :
       FinishClone(c, ok, leaves)

SpecSave == Init /\ [][NextSave]_vars

NextRepo ==
  \/ \E url \in RepoRefs \cup {NoRepo} : GitInit(url)
  \/ \E outcome \in [SubdirNames(dirs) -> ProbeOutcomes] : ListRepos(outcome)
  \/ \E repo \in RepoRefs : DeleteRepo(repo)
  \/ \E repo \in StatusRepos, outcome \in ProbeOutcomes :
       GitStatus(repo, outcome)
  \/ \E c \in CloneIds, ok \in BOOLEAN, leaves \in BOOLEAN :
       FinishClone(c, ok, leaves)

SpecRepo == Init /\ [][NextRepo]_vars

NextClone ==
  \/ \E url \in CallUrls : CallCloneOrGetRepository(url)
  \/ \E c \in CloneIds, ok \in BOOLEAN, leaves \in BOOLEAN :
       FinishClone(c, ok, leaves)

SpecClone == Init /\ [][NextClone]_vars

NextPut ==
  \/ \E name \in PutNames, filePath \in PutPaths, content \in PutContents :
       Put(name, filePath, content)
  \/ \E k \in PutIds, ok \in BOOLEAN : PutMkdir(k, ok)
  \/ \E k \in PutIds : PutAccess(k)
  \/ \E k \in PutIds, ok \in BOOLEAN : PutWrite(k, ok)
  \/ \E k \in PutIds : PutStat(k)
  \/ \E c \in CloneIds, ok \in BOOLEAN, leaves \in BOOLEAN :
       FinishClone(c, ok, leaves)

SpecPut == Init /\ [][NextPut]_vars

\* C9: cloneOrGetRepository(u) for a valid URL whose directory exists answers
\* alreadyExists with the directory derived from u, changes nothing on disk
\* and starts no clone, however often it is called
C9_ExistingNeverCloned ==
  [][\A u \in RepoRefs :
       (RefInfo[u].valid /\ Exists(RefInfo[u].target))
       => /\ GitInit(u) =>
               /\ lastResp'.status = 409
               /\ lastResp'.path = GetRepositoryPath(ExtractRepoName(u))
               /\ clones' = clones
               /\ dirs' = dirs
          /\ DeleteRepo(u) =>
               /\ lastResp'.status = 200
               /\ lastResp'.path = GetRepositoryPath(ExtractRepoName(u))
               /\ clones' = clones]_vars

\* C9 witness: POST /git/init for UrlA has answered 409 for the directory an
\* earlier clone left
C9_Witness ==
  /\ lastResp.op = "init"
  /\ lastResp.status = 409
  /\ lastResp.path = RefInfo[UrlA].target
  /\ clones = <<>>

\* a short name as the data model wants it: not empty, no separator, not a
\* "." or ".." segment
WellFormedName(r) ==
  /\ r # <<>>
  /\ ~Includes(r, Sep)
  /\ r \notin { Dot, DotDot }

WellFormedRef(r) == RefInfo[r].valid \/ (~RefInfo[r].isUrl /\ WellFormedName(r))

\* p lies below root, and is not root itself
IsStrictlyWithin(root, p) == IsWithin(root, p) /\ AbsSegs(p) # AbsSegs(root)

\* C10: a reference that is neither a well-formed short name nor a well-formed
\* URL is answered 400 before anything touches the filesystem or git, and no
\* reference resolves to a path that is not below the repos root
C10_InvalidReferenceRefused ==
  [][\A r \in RepoRefs :
       DeleteRepo(r) =>
         /\ ~WellFormedRef(r) =>
              /\ lastResp'.status = 400
              /\ dirs' = dirs
              /\ clones' = clones
         /\ (~RefInfo[r].isUrl /\ lastResp'.status = 200) =>
              IsStrictlyWithin(DEFAULT_REPOS_PATH, lastResp'.path)]_vars

\* C11: POST /git/init for a valid URL whose clone succeeds answers 200 with
\* repoName the URL's final path segment without ".git"; while the directory
\* is there, POST /git/init for that URL answers 409 and clones nothing
C11_InitThenConflict ==
  [][LET FinalSegment(url) == SplitSlash(url)[Len(SplitSlash(url))]
         HasGitSuffix(seg) ==
           /\ Len(seg) >= Len(DotGit)
           /\ SubSeq(seg, Len(seg) - Len(DotGit) + 1, Len(seg)) = DotGit
         WithoutGitSuffix(seg) ==
           IF HasGitSuffix(seg) THEN SubSeq(seg, 1, Len(seg) - Len(DotGit)) ELSE seg
     IN /\ \A c \in CloneIds :
             (clones[c].caller = "init" /\ FinishClone(c, TRUE, TRUE))
             => /\ lastResp'.status = 200
                /\ lastResp'.repoName =
                     WithoutGitSuffix(FinalSegment(clones[c].url))
                /\ PathResolve(lastResp'.path, <<>>) \in dirs'
        /\ \A u \in RepoRefs :
             (RefInfo[u].valid /\ Exists(RefInfo[u].target) /\ GitInit(u))
             => /\ lastResp'.status = 409
                /\ clones' = clones]_vars

\* C12: a clone that fails for a well-formed URL makes POST /git/init answer
\* 500 with the error in details; 400 is answered only when the URL is
\* missing or malformed
C12_CloneFailureIs500 ==
  [][/\ \A c \in CloneIds :
          (clones[c].caller = "init" /\ \E leaves \in BOOLEAN : FinishClone(c, FALSE, leaves))
          => /\ lastResp'.status = 500
             /\ lastResp'.error = "clone failed"
     /\ (lastResp'.op = "init" /\ lastResp'.status = 400 /\ lastResp' # lastResp)
          => \E u \in RepoRefs \cup {NoRepo} :
               GitInit(u) /\ (u = NoRepo \/ ~RefInfo[u].valid)]_vars

\* C19: a clone that fails is answered at once, without another clone being
\* started, and leaves the URL not-yet-present: the next request for it
\* clones again instead of finding the repository already there
C19_FailedCloneRetriedFromScratch ==
  [][\A c \in CloneIds :
       (clones[c].caller = "init" /\ \E leaves \in BOOLEAN : FinishClone(c, FALSE, leaves))
       => /\ lastResp'.op = "init"
          /\ lastResp'.status \notin {200, 409}
          /\ clones' = Without(clones, c)
          /\ PathResolve(clones[c].path, <<>>) \notin dirs']_vars

\* C13: a save whose status after stage-all shows no changed file answers
\* 200 "No changes to commit" and calls neither commit nor push
C13_NoChangesNoCommit ==
  \A k \in SaveIds :
    (\E i \in DOMAIN saves[k].calls :
       /\ saves[k].calls[i].cmd = "status"
       /\ saves[k].calls[i].ok
       /\ saves[k].calls[i].result = 0)
    => /\ saves[k].pc = "done"
       /\ saves[k].resp.status = 200
       /\ saves[k].resp.message = "No changes to commit"
       /\ \A i \in DOMAIN saves[k].calls :
            saves[k].calls[i].cmd \notin {"commit", "push"}

\* C13 witness: a save found nothing to commit after staging
C13_Witness ==
  \E k \in SaveIds :
    /\ Len(saves[k].calls) = 3
    /\ saves[k].calls[2] = [cmd |-> "add", ok |-> TRUE, result |-> 0]
    /\ saves[k].calls[3] = [cmd |-> "status", ok |-> TRUE, result |-> 0]
    /\ saves[k].resp.status = 200

\* C14: a save calls stage-all, then commit, then push, each only after the
\* one before it succeeded, and answers with the commit id only after the
\* push succeeded
C14_StageCommitPushInOrder ==
  \A k \in SaveIds :
    LET calls == saves[k].calls
        cmds  == [i \in DOMAIN calls |-> calls[i].cmd]
    IN /\ IsPrefix(cmds, <<"checkIsRepo", "add", "status", "commit", "push">>)
       /\ \A i \in 1..(Len(calls) - 1) : calls[i].ok
       /\ saves[k].resp.message = "Changes saved successfully"
            => /\ Len(calls) = 5
               /\ calls[5].ok
               /\ saves[k].resp.status = 200
               /\ saves[k].resp.commit = calls[4].result
               /\ saves[k].resp.changedFiles = calls[3].result
               /\ saves[k].resp.commit > 0 => work.pushed >= saves[k].resp.commit

\* C14 witness: a save has staged, committed and pushed a change and answered
\* with the commit
C14_Witness ==
  \E k \in SaveIds :
    /\ saves[k].resp.message = "Changes saved successfully"
    /\ saves[k].resp.commit > 0
    /\ work.pushed = work.commits

C17_SessionDirectoryWins ==
  [][/\ \A prompt \in Prompts, sessionId \in SessionIds,
          workingDirectory \in ServiceDirectories :
          (HasSession(sessionId)
             /\ CallProcessPrompt(prompt, sessionId, workingDirectory))
          => dispatches'[nDispatch'].workingDirectory =
               objects[sessionId].workingDirectory
     /\ \A k \in DispatchIds :
          (dispatches[k].session /\ EngineDone(k))
          => /\ dispatches[k].workingDirectory =
                  objects[dispatches[k].sessionId].workingDirectory
             /\ lastResp'.path = objects[dispatches[k].sessionId].workingDirectory]_vars

\* C17 witness: the engine runs for a live session in the session's directory,
\* the caller having passed another one
C17_Witness ==
  \E k \in DispatchIds :
    /\ dispatches[k].session
    /\ dispatches[k].sessionId \in sessions
    /\ dispatches[k].callerDirectory # objects[dispatches[k].sessionId].workingDirectory
    /\ dispatches[k].workingDirectory = objects[dispatches[k].sessionId].workingDirectory
    /\ dispatches[k].messages # <<>>

\* C18: processPrompt with an id that resolves to no session does not fail: the
\* engine runs in the caller's directory, a normal result is returned, and no
\* session is created or modified
C18_UnresolvedIdProceeds ==
  [][/\ \A prompt \in Prompts, sessionId \in KnownIds \ {NoSession},
          workingDirectory \in ServiceDirectories :
          (~HasSession(sessionId)
             /\ CallProcessPrompt(prompt, sessionId, workingDirectory))
          => /\ dispatches'[nDispatch'].workingDirectory = workingDirectory
             /\ sessions' = sessions
             /\ objects' = objects
     /\ \A k \in DispatchIds :
          (dispatches[k].sessionId # NoSession /\ ~dispatches[k].session
             /\ EngineDone(k))
          => /\ lastResp'.status = 200
             /\ lastResp'.path = dispatches[k].callerDirectory
             /\ lastResp'.messages = Len(dispatches[k].messages)
             /\ sessions' = sessions
             /\ objects' = objects]_vars

\* C18 witness: a prompt for an id that was never a session has returned its
\* result, from the caller's directory
C18_Witness ==
  /\ lastResp.op = "prompt"
  /\ lastResp.status = 200
  /\ lastResp.sessionId = UnknownSession
  /\ lastResp.path = PathA
  /\ lastResp.messages = MaxMessages

\* C20: POST /claude/sessions and POST /claude/prompt given a short name in
\* `repo` work in <reposRoot>/<name>; the name is not refused as an invalid
\* reference
C20_ShortNameResolves ==
  [][/\ PostSessions(NameA)
          => /\ lastResp'.status = 201
             /\ lastResp'.path = GetRepositoryPath(NameA)
     /\ \A prompt \in Prompts :
          PostPrompt(prompt, NameA, NoSession)
          => /\ lastResp'.status # 400
             /\ nDispatch' = nDispatch + 1
             /\ dispatches'[nDispatch'].workingDirectory =
                  GetRepositoryPath(NameA)]_vars

(***************************************************************************)
(* Properties of repository references in the Git endpoints                *)
(***************************************************************************)

\* C21: a Git endpoint given the short name NameA works in the directory
\* GetRepositoryPath(NameA) below the repos root, and neither clones nor
\* changes the filesystem to get there; stated for POST /git/save, whose
\* directory is the one handed to simpleGit
C21_SaveShortNameInReposRoot ==
  [][\A message \in Messages :
       Save(message, NameA)
       => LET repoPath == IF Len(saves') > Len(saves)
                          THEN saves'[Len(saves')].repoPath
                          ELSE lastResp'.path
          IN /\ PathResolve(Cwd, repoPath) =
                  PathResolve(GetRepositoryPath(NameA), <<>>)
             /\ clones' = clones
             /\ dirs' = dirs]_vars

\* C22: POST /claude/prompt with a sessionId that is not in the store answers
\* 404 "Session not found" and starts neither the engine nor a clone; with a
\* sessionId that is in the store it starts the engine with the session found
\* by processPrompt, in the session's directory
C22_UnknownSessionIs404 ==
  [][\A prompt \in Prompts, repo \in SessionRepos \cup {NoRepo},
        sessionId \in SessionIds :
       PostPrompt(prompt, repo, sessionId)
       => IF sessionId \notin sessions
          THEN /\ lastResp'.op = "prompt"
               /\ lastResp'.status = 404
               /\ lastResp'.error = "Session not found"
               /\ dispatches' = dispatches
               /\ nDispatch' = nDispatch
               /\ clones' = clones
          ELSE /\ nDispatch' = nDispatch + 1
               /\ dispatches'[nDispatch'].session
               /\ dispatches'[nDispatch'].sessionId = sessionId
               /\ dispatches'[nDispatch'].workingDirectory =
                    objects[sessionId].workingDirectory
               /\ lastResp' = lastResp]_vars

\* C22 witness: a prompt for a session was dispatched with the session, the
\* session was deleted, and the next prompt for it was answered 404
C22_Witness ==
  /\ lastResp.op = "prompt"
  /\ lastResp.status = 404
  /\ lastResp.sessionId \in deleted
  /\ \E k \in DispatchIds : /\ dispatches[k].session
                            /\ dispatches[k].sessionId = lastResp.sessionId

(***************************************************************************)
(* Properties of cloneOrGetRepository called directly (SpecClone)          *)
(***************************************************************************)

\* C23: of the cloneOrGetRepository calls under way, at most one is cloning
\* into any target directory
C23_OneCloneAtATime ==
  \A c1 \in CloneIds, c2 \in CloneIds :
    c1 # c2 => clones[c1].path # clones[c2].path

\* C25: a successful cloneOrGetRepository returns a path strictly below the
\* repos root, never the repos root itself or a directory above it
C25_ResultBelowReposRoot ==
  cloneResult.success => IsStrictlyWithin(DEFAULT_REPOS_PATH, cloneResult.path)

\* C26: when cloneOrGetRepository(u) succeeds and the directory it returns was
\* made by a clone, it was a clone of u (u with or without the ".git" ending)
C26_DirectoryHoldsCloneOfUrl ==
  LET Bare(u) == IF Len(u) >= 4 /\ SubSeq(u, Len(u) - 3, Len(u)) = DotGit
                 THEN SubSeq(u, 1, Len(u) - 4)
                 ELSE u
  IN (cloneResult.success /\ cloneResult.path \in DOMAIN origin)
     => Bare(origin[cloneResult.path]) = Bare(cloneResult.url)

\* C24: the messages of a session change only when a dispatch against it
\* completes its drain, which puts all the messages of that dispatch, in the
\* order drained, after the messages already there; so the messages of one
\* dispatch are one contiguous block and the blocks are in completion order
C24_BlocksInCompletionOrder ==
  [][\A id \in ObjectIds :
       LET before == objects[id].messages
           after  == objects'[id].messages
       IN /\ after # before
               => \E k \in DispatchIds :
                    /\ EngineDone(k)
                    /\ dispatches[k].sessionId = id
                    /\ after = before \o dispatches[k].messages
          /\ \A i \in 1..Len(after), j \in 1..Len(after) :
               (i < j /\ after[i].dispatch = after[j].dispatch)
               => /\ \A l \in i..j : after[l].dispatch = after[i].dispatch
                  /\ after[j].n = after[i].n + (j - i)]_vars

\* C24 witness: two dispatches against one session ran concurrently, each
\* drained MaxMessages messages, and the one requested second completed first
C24_Witness ==
  \E id \in sessions :
    LET m == objects[id].messages
    IN /\ Len(m) = 2 * MaxMessages
       /\ m[1].dispatch = 2
       /\ m[Len(m)].dispatch = 1

\* C27: the workingDirectory of every session in the store exists on the
\* filesystem
C27_SessionDirectoryExists ==
  \A id \in sessions : Exists(objects[id].workingDirectory)

\* C28: GET /git/status/:repo and DELETE /git/repo/:repo, whatever reference
\* they are given, start no clone and create no directory
C28_ReadsAndDeleteNeverClone ==
  [][\A repo \in RepoRefs :
       (DeleteRepo(repo) \/ \E outcome \in ProbeOutcomes : GitStatus(repo, outcome))
       => /\ clones' = clones
          /\ dirs' \subseteq dirs]_vars

\* C29: a session's lastPrompt is absent exactly when its totalPrompts is 0;
\* when a dispatch that found the session completes its drain, lastPrompt
\* becomes that dispatch's prompt, whichever dispatch was requested first;
\* lastPrompt and updatedAt change on no other step
C29_LastPromptIsLatestCompleted ==
  [][\A id \in ObjectIds :
       LET completes(k) == /\ EngineDone(k)
                           /\ dispatches[k].session
                           /\ dispatches[k].sessionId = id
       IN /\ (objects'[id].lastPrompt = Absent) <=> (objects'[id].totalPrompts = 0)
          /\ \A k \in DispatchIds :
               completes(k) => objects'[id].lastPrompt = dispatches[k].prompt
          /\ ( \/ objects'[id].lastPrompt # objects[id].lastPrompt
               \/ objects'[id].updatedAt # objects[id].updatedAt )
             => \E k \in DispatchIds : completes(k)]_vars

\* C29 witness: of two dispatches against one session the one requested
\* second completed first, and lastPrompt is the prompt of the first, which
\* completed last
C29_Witness ==
  \E id \in sessions :
    LET m == objects[id].messages
    IN /\ objects[id].totalPrompts = 2
       /\ Len(m) >= 2
       /\ m[1].dispatch = 2
       /\ m[Len(m)].dispatch = 1
       /\ objects[id].lastPrompt = "p1"
       /\ lastResp.op = "prompt"
       /\ lastResp.status = 200

(***************************************************************************)
(* Properties of PUT /git/repos/:name/files/* (SpecPut)                    *)
(***************************************************************************)

\* C30: of the PUT requests that wrote one file path, which did not exist
\* before them, at most one reports created: true
C30_OneCreatePerPath ==
  \A k1 \in PutIds, k2 \in PutIds :
    ( /\ k1 # k2
      /\ puts[k1].resp.status = 200
      /\ puts[k2].resp.status = 200
      /\ puts[k1].fullPath = puts[k2].fullPath )
    => ~(puts[k1].resp.created /\ puts[k2].resp.created)

=============================================================================
